---------------------------- MODULE Spec2Model ----------------------------
(***************************************************************************)
(* Model of the digestiflow-cli `ingest` command.                          *)
(*                                                                         *)
(*   Spec       src/ingest/mod.rs: run, process_folder, update_flowcell,   *)
(*              register_flowcell, analyze_adapters                        *)
(*   SpecOld    src/ingest.rs: the older run / process_folder              *)
(*   SpecStatus src/ingest/bcl_meta.rs: get_status_sequencing              *)
(*   SpecStacks src/ingest/bcl_data.rs: analyze_stacks                     *)
(*                                                                         *)
(* Strings the program computes with (read encodings, version strings)     *)
(* are sequences of one-character strings.  An Option<T> is a sequence of  *)
(* length 0 (None) or 1 (Some).  A panic (expect / unwrap / index out of   *)
(* range) ends the process: pc = "panicked".                               *)
(***************************************************************************)
EXTENDS Integers, Sequences, FiniteSets, TLC

VARIABLES
    settings,    \* Settings of the run (settings.rs), fixed while the run lasts
    pc,          \* position of the program
    idx,         \* 1-based position in settings.ingest.path of the next path
    results,     \* result of process_folder per path processed so far
    runResult,   \* what run returned: "none" while it has not returned
    remote,      \* the service's record of the directory's flow cell, or None
    num_hists,   \* number of histograms the service lists for that flow cell
    run_info,    \* RunInfo of the directory being processed
    flowcell,    \* the api::FlowCell process_folder works with
    k,           \* analyze_adapters: position in run_info.reads
    index_no,    \* analyze_adapters: index_no
    cycle,       \* analyze_adapters: cycle
    reqs,        \* REST requests issued for the directory being processed
    decisions,   \* analyze_adapters: what was decided for each index read so far
    input,       \* SpecStatus / SpecStacks: the arguments of the function
    output       \* SpecStatus / SpecStacks: what the function returned

vars == <<settings, pc, idx, results, runResult, remote, num_hists, run_info,
          flowcell, k, index_no, cycle, reqs, decisions, input, output>>

---------------------------------------------------------------------------
(* Bounds of the model *)

NumPaths == 2

MaxLanes == 2

MaxHists == 2

MaxClusters == 2

---------------------------------------------------------------------------
(* Values *)

None == <<>>

Some(x) == <<x>>

DigitChars == <<"0", "1", "2", "3", "4", "5", "6", "7", "8", "9">>

RECURSIVE Digits(_)
Digits(n) == IF n < 10 THEN <<DigitChars[n + 1]>>
             ELSE Digits(n \div 10) \o <<DigitChars[(n % 10) + 1]>>

ReadDescription(number, num_cycles, is_index) ==
    [number |-> number, num_cycles |-> num_cycles, is_index |-> is_index]

\* Variant: the letter is written before the number of cycles
RECURSIVE string_description_letter_first(_)
string_description_letter_first(read_descs) ==
    IF read_descs = <<>> THEN <<>>
    ELSE <<IF Head(read_descs).is_index THEN "B" ELSE "T">>
         \o Digits(Head(read_descs).num_cycles)
         \o string_description_letter_first(Tail(read_descs))

RECURSIVE string_description(_)
string_description(read_descs) ==
    IF read_descs = <<>> THEN <<>>
    ELSE Digits(Head(read_descs).num_cycles)
         \o <<IF Head(read_descs).is_index THEN "B" ELSE "T">>
         \o string_description(Tail(read_descs))

TerminalStatuses == {"closed", "failed", "complete"}

Statuses == {"initial", "in_progress", "complete", "failed", "closed"}

\* Variant: a remote 'complete' counts as not final
get_status_sequencing_complete_not_final(reads, planned_reads, rta_complete, current_status) ==
    IF current_status \in {"closed", "failed"} THEN current_status
    ELSE IF planned_reads # <<>> /\ reads # planned_reads THEN "failed"
    ELSE IF rta_complete THEN "complete"
    ELSE "in_progress"

\* Variant: RTAComplete.txt is looked at before the reads are compared
get_status_sequencing_rta_first(reads, planned_reads, rta_complete, current_status) ==
    IF current_status \in TerminalStatuses THEN current_status
    ELSE IF rta_complete THEN "complete"
    ELSE IF planned_reads # <<>> /\ reads # planned_reads THEN "failed"
    ELSE "in_progress"

\* Variant: a run that is neither failed nor complete keeps its status
get_status_sequencing_keeps_open_status(reads, planned_reads, rta_complete, current_status) ==
    IF current_status \in TerminalStatuses THEN current_status
    ELSE IF planned_reads # <<>> /\ reads # planned_reads THEN "failed"
    ELSE IF rta_complete THEN "complete"
    ELSE current_status

get_status_sequencing(reads, planned_reads, rta_complete, current_status) ==
    IF current_status \in TerminalStatuses THEN current_status
    ELSE IF planned_reads # <<>> /\ reads # planned_reads THEN "failed"
    ELSE IF rta_complete THEN "complete"
    ELSE "in_progress"

---------------------------------------------------------------------------
(* Manifests: RunInfo and RunParameters (bcl_meta.rs) *)

RunInfo(lane_count, reads) ==
    [run_id |-> "210503_M1_0001_FC1", run_number |-> 1, flowcell |-> "FC1",
     instrument |-> "M1", date |-> "2021-05-03", lane_count |-> lane_count,
     reads |-> reads]

RunParameters(planned_reads, rta_version) ==
    [planned_reads |-> planned_reads, rta_version |-> rta_version,
     run_number |-> 1, flowcell_slot |-> "A", experiment_name |-> "exp"]

NoRunInfo == RunInfo(0, <<>>)

\* str::split('.').next(): the text before the first '.'
RECURSIVE BeforeDot(_)
BeforeDot(s) == IF s = <<>> \/ Head(s) = "." THEN <<>>
                ELSE <<Head(s)>> \o BeforeDot(Tail(s))

IsDigit(c) == \E i \in 1..10 : DigitChars[i] = c

DigitValue(c) == (CHOOSE i \in 1..10 : DigitChars[i] = c) - 1

RECURSIVE DigitsValue(_, _)
DigitsValue(s, acc) == IF s = <<>> THEN acc
                       ELSE DigitsValue(Tail(s), 10 * acc + DigitValue(Head(s)))

\* str::parse::<i32>() of an unsigned decimal: None when it is no number
ParseInt(s) == IF s # <<>> /\ \A i \in 1..Len(s) : IsDigit(s[i])
               THEN Some(DigitsValue(s, 0)) ELSE None

\* build_flow_cell panics (expect) when the RTA version has no leading integer
BuildPanics(run_params) == ParseInt(BeforeDot(run_params.rta_version)) = None

build_flow_cell(info, run_params, rta_complete, status_sequencing, s) ==
    [sodar_uuid |-> None,
     run_date |-> info.date,
     run_number |-> info.run_number,
     slot |-> run_params.flowcell_slot,
     vendor_id |-> info.flowcell,
     label |-> Some(run_params.experiment_name),
     num_lanes |-> info.lane_count,
     rta_version |-> ParseInt(BeforeDot(run_params.rta_version))[1],
     planned_reads |-> Some(string_description(run_params.planned_reads)),
     current_reads |-> Some(string_description(info.reads)),
     manual_label |-> None,
     description |-> None,
     sequencing_machine |-> info.instrument,
     operator |-> Some(s.operator),
     status_sequencing |->
         get_status_sequencing(info.reads, run_params.planned_reads, rta_complete,
             IF status_sequencing = None THEN "initial" ELSE status_sequencing[1]),
     status_conversion |-> "initial",
     status_delivery |-> "initial",
     delivery_type |-> "seq"]

\* Variant: the operator of the rebuilt record is sent too
MergeRebuilt_with_operator(fc, rebuilt) ==
    [fc EXCEPT !.planned_reads = rebuilt.planned_reads,
               !.current_reads = rebuilt.current_reads,
               !.status_sequencing = rebuilt.status_sequencing,
               !.operator = rebuilt.operator]

\* update_flowcell: the record that is PUT
MergeRebuilt(fc, rebuilt) ==
    [fc EXCEPT !.planned_reads = rebuilt.planned_reads,
               !.current_reads = rebuilt.current_reads,
               !.status_sequencing = rebuilt.status_sequencing]

update_body(fc, info, run_params, rta_complete, s) ==
    MergeRebuilt(fc, build_flow_cell(info, run_params, rta_complete,
                                     Some(fc.status_sequencing), s))

---------------------------------------------------------------------------
(* Layout Detector (bcl_meta.rs) *)

Markers == {"L001", "L001/C1.1", "L001/C1.1/L001_1.cbcl", "L001/C1.1/L001_2.cbcl",
            "s.locs", "RunParameters.xml", "runParameters.xml"}

\* Variant: the MiniSeq rule is tried before the MiSeq rule
guess_folder_layout_miniseq_first(m) ==
    IF "RunParameters.xml" \in m
       /\ ("L001/C1.1/L001_1.cbcl" \in m \/ "L001/C1.1/L001_2.cbcl" \in m)
    THEN "NovaSeq"
    ELSE IF "L001" \in m /\ "RunParameters.xml" \in m THEN "MiniSeq"
    ELSE IF "L001/C1.1" \in m /\ "runParameters.xml" \in m THEN "MiSeq"
    ELSE IF "s.locs" \in m /\ "RunParameters.xml" \in m THEN "HiSeqX"
    ELSE "Unknown"

guess_folder_layout(m) ==
    IF "RunParameters.xml" \in m
       /\ ("L001/C1.1/L001_1.cbcl" \in m \/ "L001/C1.1/L001_2.cbcl" \in m)
    THEN "NovaSeq"
    ELSE IF "L001/C1.1" \in m /\ "runParameters.xml" \in m THEN "MiSeq"
    ELSE IF "L001" \in m /\ "RunParameters.xml" \in m THEN "MiniSeq"
    ELSE IF "s.locs" \in m /\ "RunParameters.xml" \in m THEN "HiSeqX"
    ELSE "Unknown"

---------------------------------------------------------------------------
(* The directories handed to the run, and the service *)

Reads_T == <<ReadDescription(1, 2, FALSE)>>

Reads_TB == <<ReadDescription(1, 2, FALSE), ReadDescription(2, 1, TRUE)>>

Reads_TBB == <<ReadDescription(1, 2, FALSE), ReadDescription(2, 1, TRUE),
               ReadDescription(3, 1, TRUE)>>

Reads_Other == <<ReadDescription(1, 3, FALSE), ReadDescription(2, 1, TRUE)>>

RunInfoReads == {Reads_T, Reads_TB, Reads_TBB}

RtaVersions == {<<"2", ".", "7", ".", "6">>, <<>>}

Dir(runinfo_exists, markers, xml, reads, planned_reads, rta_version, lane_count, rta_complete) ==
    [runinfo_exists |-> runinfo_exists, markers |-> markers, xml |-> xml,
     reads |-> reads, planned_reads |-> planned_reads, rta_version |-> rta_version,
     lane_count |-> lane_count, rta_complete |-> rta_complete]

MiSeqMarkers == {"L001", "L001/C1.1", "runParameters.xml"}

MiniSeqMarkers == {"L001", "RunParameters.xml"}

NovaSeqMarkers == {"L001", "L001/C1.1", "L001/C1.1/L001_1.cbcl", "RunParameters.xml"}

HiSeqXMarkers == {"s.locs", "RunParameters.xml"}

\* Directories whose manifests are read and for which resolve is called
GoodDirs ==
    {Dir(TRUE, MiSeqMarkers, "ok", r, p, v, MaxLanes, c) :
        r \in RunInfoReads, p \in {<<>>, Reads_TB},
        v \in RtaVersions, c \in BOOLEAN}
    \cup {Dir(TRUE, m, "ok", Reads_TB, Reads_TB, <<"3", ".", "4">>, 1, FALSE) :
            m \in {MiniSeqMarkers, NovaSeqMarkers}}

\* Directories process_folder gives up on before it calls resolve
BadDirs ==
    {Dir(FALSE, MiSeqMarkers, "ok", Reads_TB, Reads_TB, <<"2">>, 1, FALSE),
     Dir(TRUE, {"L001"}, "ok", Reads_TB, Reads_TB, <<"2">>, 1, FALSE),
     Dir(TRUE, HiSeqXMarkers, "ok", Reads_TB, Reads_TB, <<"2">>, 1, FALSE),
     Dir(TRUE, HiSeqXMarkers, "bad_attr", Reads_TB, Reads_TB, <<"2">>, 1, FALSE)}
    \cup {Dir(TRUE, MiSeqMarkers, x, Reads_TB, Reads_TB, <<"2">>, 1, FALSE) :
            x \in {"unparsable", "bad_attr", "bad_date"}}

\* Variant: the test for RunInfo.xml is left out
HeadOutcome_no_runinfo_test(dir) ==
    IF guess_folder_layout(dir.markers) = "Unknown" THEN "err"
    ELSE IF dir.xml = "unparsable" THEN "err"
    ELSE IF dir.xml = "bad_attr" THEN "panic"
    ELSE IF dir.xml = "bad_date" THEN "err"
    ELSE IF guess_folder_layout(dir.markers) = "HiSeqX" THEN "err"
    ELSE "ok"

\* process_folder up to the call of resolve: "ok", "err" (bail!, ?) or "panic"
HeadOutcome(dir) ==
    IF ~dir.runinfo_exists THEN "err"
    ELSE IF guess_folder_layout(dir.markers) = "Unknown" THEN "err"
    ELSE IF dir.xml = "unparsable" THEN "err"
    ELSE IF dir.xml = "bad_attr" THEN "panic"
    ELSE IF dir.xml = "bad_date" THEN "err"
    ELSE IF guess_folder_layout(dir.markers) = "HiSeqX" THEN "err"
    ELSE "ok"

\* A record of the service that this tool did not build
ForeignFlowCell(status, lanes, planned) ==
    [sodar_uuid |-> Some("uuid-1"),
     run_date |-> "2021-05-02",
     run_number |-> 1,
     slot |-> "B",
     vendor_id |-> "FC1",
     label |-> Some("label"),
     num_lanes |-> lanes,
     rta_version |-> 1,
     planned_reads |-> Some(planned),
     current_reads |-> Some(<<"9", "T">>),
     manual_label |-> Some("manual"),
     description |-> Some("text"),
     sequencing_machine |-> "M1",
     operator |-> Some("someone"),
     status_sequencing |-> status,
     status_conversion |-> "complete",
     status_delivery |-> "in_progress",
     delivery_type |-> "seq"]

ServerStates ==
    {[remote |-> None, num_hists |-> 0]}
    \cup {[remote |-> Some(ForeignFlowCell(st, 1, string_description(Reads_TB))),
           num_hists |-> h] : st \in Statuses, h \in 0..MaxHists}

SettingsSet ==
    [project_uuid : {"", "project"}, register : BOOLEAN, update : BOOLEAN,
     skip_if_status_final : BOOLEAN, analyze_adapters : BOOLEAN,
     post_adapters : BOOLEAN, force_analyze_adapters : BOOLEAN, operator : {"op"}]

\* One REST request and its answer
Req(method, what, uuid, body, status, resp) ==
    [method |-> method, what |-> what, uuid |-> uuid, body |-> body,
     status |-> status, resp |-> resp]

\* The service stores a created record under a fresh uuid
Created(body) == [body EXCEPT !.sodar_uuid = Some("uuid-2")]

---------------------------------------------------------------------------
(* run and process_folder (ingest/mod.rs) *)

FunctionVarsUnchanged == UNCHANGED <<input, output>>

\* process_folder is done with its path argument
PathDropped == input' = None /\ UNCHANGED output

Init ==
    /\ settings \in SettingsSet
    /\ pc = "run"
    /\ idx = 1
    /\ results = <<>>
    /\ runResult = "none"
    /\ remote = None
    /\ num_hists = 0
    /\ run_info = NoRunInfo
    /\ flowcell = None
    /\ k = 0
    /\ index_no = 0
    /\ cycle = 0
    /\ reqs = <<>>
    /\ decisions = <<>>
    /\ input = None
    /\ output = None

\* run, lines 412-430: bail out when the project UUID is missing
RunStart ==
    /\ pc = "run"
    /\ IF settings.project_uuid = ""
       THEN pc' = "finished" /\ runResult' = "Err"
       ELSE pc' = "next" /\ runResult' = runResult
    /\ UNCHANGED <<settings, idx, results, remote, num_hists, run_info, flowcell,
                   k, index_no, cycle, reqs, decisions>>
    /\ FunctionVarsUnchanged

\* run, lines 432-438: the closure is called with the next path, a directory
\* of GoodDirs or BadDirs; the service holds any of ServerStates for the flow
\* cell of that directory
NextPath ==
    /\ pc = "next"
    /\ idx <= NumPaths
    /\ pc' = "folder"
    /\ \E sv \in ServerStates : remote' = sv.remote /\ num_hists' = sv.num_hists
    /\ \E dir \in GoodDirs \cup BadDirs : input' = Some(dir)
    /\ UNCHANGED <<settings, idx, results, runResult, run_info, flowcell, k,
                   index_no, cycle, reqs, decisions, output>>

\* process_folder returned res to the closure of run (line 436)
FolderReturns(res) ==
    /\ pc' = "returned"
    /\ idx' = idx
    /\ results' = Append(results, res)
    /\ run_info' = NoRunInfo
    /\ flowcell' = None
    /\ k' = 0
    /\ index_no' = 0
    /\ cycle' = 0
    /\ UNCHANGED <<settings, runResult>>
    /\ PathDropped

\* run, lines 436-453: the closure has logged the result, the REST client of
\* the directory is done with, the iterator moves on
PathDone ==
    /\ pc = "returned"
    /\ pc' = "next"
    /\ idx' = idx + 1
    /\ remote' = None
    /\ num_hists' = 0
    /\ reqs' = <<>>
    /\ decisions' = <<>>
    /\ UNCHANGED <<settings, results, runResult, run_info, flowcell, k, index_no,
                   cycle>>
    /\ FunctionVarsUnchanged

\* A panic unwinds through run and main: the process ends
Panics ==
    /\ pc' = "panicked"
    /\ UNCHANGED <<settings, idx, results, runResult, run_info, flowcell, k,
                   index_no, cycle>>
    /\ PathDropped

\* process_folder, lines 389-405, with the flow cell fc to work with
Continue(info, fc) ==
    IF settings.analyze_adapters
    THEN /\ pc' = "adapters"
         /\ run_info' = info
         /\ flowcell' = Some(fc)
         /\ k' = 1
         /\ index_no' = 0
         /\ cycle' = 1
         /\ UNCHANGED <<settings, idx, results, runResult>>
         /\ PathDropped
    ELSE FolderReturns("Ok")

\* process_folder, line 317
SyncBranch(s) == s.register \/ s.update

\* process_folder, lines 322-357: is update_flowcell called for the record found
ShouldUpdate(s, fc) ==
    /\ s.update
    /\ \/ fc.status_sequencing \in {"initial", "in_progress"}
       \/ ~s.skip_if_status_final

\* process_folder, line 361
ShouldRegister(s) == s.register

ResolveArgs == None

\* process_folder, lines 247-299: the directory is given up before resolve
FolderRejected ==
    /\ pc = "folder"
    /\ LET dir == input[1] IN
        /\ HeadOutcome(dir) # "ok"
        /\ UNCHANGED <<remote, num_hists, reqs, decisions>>
        /\ IF HeadOutcome(dir) = "panic" THEN Panics ELSE FolderReturns("Err")

\* process_folder, lines 309-315 and 382-386: resolve fails, not with 404
ResolveFails ==
    /\ pc = "folder"
    /\ LET dir == input[1] IN
        /\ HeadOutcome(dir) = "ok"
        /\ reqs' = <<Req("GET", "resolve", ResolveArgs, None, 500, None)>>
        /\ UNCHANGED <<remote, num_hists, decisions>>
        /\ IF SyncBranch(settings) THEN FolderReturns("Err") ELSE Panics

\* process_folder, lines 359-381 and 386: resolve answers 404
ResolveNotFound ==
    /\ pc = "folder"
    /\ remote = None
    /\ \E answer \in {200, 500} :
        LET dir == input[1]
            info == RunInfo(dir.lane_count, dir.reads)
            params == RunParameters(dir.planned_reads, dir.rta_version)
            get == Req("GET", "resolve", ResolveArgs, None, 404, None)
            body == build_flow_cell(info, params, dir.rta_complete, None, settings)
        IN  /\ HeadOutcome(dir) = "ok"
            /\ UNCHANGED decisions
            /\ IF ~SyncBranch(settings)
               THEN reqs' = <<get>> /\ UNCHANGED <<remote, num_hists>> /\ Panics
               ELSE IF ~ShouldRegister(settings)
               THEN /\ reqs' = <<get>>
                    /\ UNCHANGED <<remote, num_hists>>
                    /\ FolderReturns("Ok")
               ELSE IF BuildPanics(params)
               THEN reqs' = <<get>> /\ UNCHANGED <<remote, num_hists>> /\ Panics
               ELSE IF answer # 200
               THEN /\ reqs' = <<get, Req("POST", "flowcell", None, Some(body),
                                          answer, None)>>
                    /\ UNCHANGED <<remote, num_hists>>
                    /\ FolderReturns("Err")
               ELSE /\ reqs' = <<get, Req("POST", "flowcell", None, Some(body),
                                          answer, Some(Created(body)))>>
                    /\ remote' = Some(Created(body))
                    /\ num_hists' = 0
                    /\ Continue(info, Created(body))

\* process_folder, lines 320-358 and 386: resolve answers 200
ResolveFound ==
    /\ pc = "folder"
    /\ remote # None
    /\ \E answer \in {200, 500} :
        LET dir == input[1]
            info == RunInfo(dir.lane_count, dir.reads)
            params == RunParameters(dir.planned_reads, dir.rta_version)
            found == remote[1]
            get == Req("GET", "resolve", ResolveArgs, None, 200, remote)
            body == update_body(found, info, params, dir.rta_complete, settings)
        IN  /\ HeadOutcome(dir) = "ok"
            /\ UNCHANGED decisions
            /\ UNCHANGED num_hists
            /\ IF ~(SyncBranch(settings) /\ ShouldUpdate(settings, found))
               THEN /\ reqs' = <<get>>
                    /\ UNCHANGED remote
                    /\ Continue(info, found)
               ELSE IF BuildPanics(params) \/ found.sodar_uuid = None
               THEN reqs' = <<get>> /\ UNCHANGED remote /\ Panics
               ELSE IF answer # 200
               THEN /\ reqs' = <<get, Req("PUT", "flowcell", found.sodar_uuid,
                                          Some(body), answer, None)>>
                    /\ UNCHANGED remote
                    /\ FolderReturns("Err")
               ELSE /\ reqs' = <<get, Req("PUT", "flowcell", found.sodar_uuid,
                                          Some(body), answer, Some(body))>>
                    /\ remote' = Some(body)
                    /\ Continue(info, body)

---------------------------------------------------------------------------
(* analyze_adapters (ingest/mod.rs) *)

\* What sample_adapters can return: Err, a panic, or IndexCounts for n lanes
SampleOutcomes ==
    {[kind |-> "err", lanes |-> 0], [kind |-> "panic", lanes |-> 0]}
    \cup {[kind |-> "ok", lanes |-> n] : n \in 1..MaxLanes}

IndexCounts(no, lane_no) ==
    [index_no |-> no, lane_no |-> lane_no, sample_size |-> MaxClusters,
     hist |-> "hist"]

LaneIndexHistogram(fc, lane, no, counts) ==
    [sodar_uuid |-> None, flowcell |-> fc.sodar_uuid[1], lane |-> lane,
     index_read_no |-> no, min_index_fraction |-> "min_index_fraction",
     sample_size |-> counts.sample_size, histogram |-> counts.hist]

\* analyze_adapters, lines 168-175
ExpectedAdapters(fc) ==
    fc.num_lanes * Cardinality({i \in 1..Len(fc.planned_reads[1]) :
                                   fc.planned_reads[1][i] = "B"})

\* Variant: force_analyze_adapters is not looked at
SkipSampling_ignoring_force(s, hists, fc) == hists = ExpectedAdapters(fc)

\* analyze_adapters, line 178
SkipSampling(s, hists, fc) ==
    hists = ExpectedAdapters(fc) /\ ~s.force_analyze_adapters

Decision(no, start_cycle, hists, sampled) ==
    [index_no |-> no, start_cycle |-> start_cycle, num_hists |-> hists,
     sampled |-> sampled]

\* Variant: only the cycles of index reads are added to cycle
NextRead_counting_index_cycles(no, desc) ==
    /\ pc' = "adapters"
    /\ k' = k + 1
    /\ index_no' = no
    /\ cycle' = cycle + (IF desc.is_index THEN desc.num_cycles ELSE 0)
    /\ UNCHANGED <<settings, idx, results, runResult, run_info, flowcell>>
    /\ FunctionVarsUnchanged

\* The loop goes on with the next read (line 231)
NextRead(no, desc) ==
    /\ pc' = "adapters"
    /\ k' = k + 1
    /\ index_no' = no
    /\ cycle' = cycle + desc.num_cycles
    /\ UNCHANGED <<settings, idx, results, runResult, run_info, flowcell>>
    /\ FunctionVarsUnchanged

\* The histogram POSTs of lanes 1..n, in order (lines 206-227)
HistPosts(fc, no, n, status) ==
    [i \in 1..n |->
        Req("POST", "indexhistos", fc.sodar_uuid,
            Some(LaneIndexHistogram(fc, i, no, IndexCounts(no, i))),
            IF i < n THEN 200 ELSE status, None)]

\* One iteration of the loop over run_info.reads (lines 141-232)
AnalyzeRead ==
    /\ pc = "adapters"
    /\ k <= Len(run_info.reads)
    /\ LET desc == run_info.reads[k]
           fc == flowcell[1]
           no == index_no + 1
           get(status) == Req("GET", "indexhistos", fc.sodar_uuid, None, status,
                              IF status = 200 THEN Some(num_hists) ELSE None)
       IN  /\ UNCHANGED remote
           /\ IF ~desc.is_index
              THEN /\ NextRead(index_no, desc)
                   /\ UNCHANGED <<reqs, decisions, num_hists>>
              ELSE IF fc.sodar_uuid = None
              THEN UNCHANGED <<reqs, decisions, num_hists>> /\ Panics
              ELSE \/ /\ reqs' = Append(reqs, get(500))
                      /\ UNCHANGED <<decisions, num_hists>>
                      /\ FolderReturns("Err")
                   \/ /\ fc.planned_reads = None
                      /\ reqs' = Append(reqs, get(200))
                      /\ UNCHANGED <<decisions, num_hists>>
                      /\ Panics
                   \/ /\ fc.planned_reads # None
                      /\ SkipSampling(settings, num_hists, fc)
                      /\ reqs' = Append(reqs, get(200))
                      /\ decisions' = Append(decisions,
                                             Decision(no, cycle, num_hists, FALSE))
                      /\ UNCHANGED num_hists
                      /\ NextRead(no, desc)
                   \/ /\ fc.planned_reads # None
                      /\ ~SkipSampling(settings, num_hists, fc)
                      /\ decisions' = Append(decisions,
                                             Decision(no, cycle, num_hists, TRUE))
                      /\ \E out \in SampleOutcomes :
                           IF out.kind = "err"
                           THEN /\ reqs' = Append(reqs, get(200))
                                /\ UNCHANGED num_hists
                                /\ FolderReturns("Err")
                           ELSE IF out.kind = "panic"
                           THEN /\ reqs' = Append(reqs, get(200))
                                /\ UNCHANGED num_hists
                                /\ Panics
                           ELSE IF ~settings.post_adapters
                           THEN /\ reqs' = Append(reqs, get(200))
                                /\ UNCHANGED num_hists
                                /\ NextRead(no, desc)
                           ELSE \/ /\ reqs' = Append(reqs, get(200))
                                             \o HistPosts(fc, no, out.lanes, 200)
                                   /\ num_hists' = num_hists + out.lanes
                                   /\ NextRead(no, desc)
                                \/ \E n \in 1..out.lanes :
                                     /\ reqs' = Append(reqs, get(200))
                                                \o HistPosts(fc, no, n, 500)
                                     /\ num_hists' = num_hists + (n - 1)
                                     /\ FolderReturns("Err")

\* analyze_adapters returns Ok(()) after the last read (lines 234-235, 404-405)
AdaptersDone ==
    /\ pc = "adapters"
    /\ k > Len(run_info.reads)
    /\ UNCHANGED <<remote, num_hists, reqs, decisions>>
    /\ FolderReturns("Ok")

NumFailed(res) == Cardinality({i \in 1..Len(res) : res[i] = "Err"})

\* run, lines 432-459: all paths were mapped, the failures are counted
RunReturns ==
    /\ pc = "next"
    /\ idx > NumPaths
    /\ pc' = "finished"
    /\ runResult' = IF NumFailed(results) > 0 THEN "Err" ELSE "Ok"
    /\ UNCHANGED <<settings, idx, results, remote, num_hists, run_info, flowcell,
                   k, index_no, cycle, reqs, decisions>>
    /\ FunctionVarsUnchanged

Next ==
    \/ RunStart
    \/ NextPath
    \/ FolderRejected
    \/ ResolveFails
    \/ ResolveNotFound
    \/ ResolveFound
    \/ AnalyzeRead
    \/ AdaptersDone
    \/ PathDone
    \/ RunReturns

Spec == Init /\ [][Next]_vars

---------------------------------------------------------------------------
(* The older run and process_folder (src/ingest.rs) *)

\* Settings of the function specifications: the defaults of IngestArgs
DefaultSettings ==
    [project_uuid |-> "project", register |-> TRUE, update |-> TRUE,
     skip_if_status_final |-> TRUE, analyze_adapters |-> TRUE,
     post_adapters |-> TRUE, force_analyze_adapters |-> FALSE, operator |-> "op"]

OldDirKinds == {"ok", "no_runinfo", "unknown_layout", "hiseqx", "unparsable_xml",
                "bad_attr"}

\* process_folder up to the call of resolve: "ok", "err" (bail!, ?) or "panic"
OldHeadOutcome(kind) ==
    IF kind \in {"no_runinfo", "unknown_layout", "unparsable_xml", "hiseqx"}
    THEN "err"
    ELSE IF kind = "bad_attr" THEN "panic"
    ELSE "ok"

\* analyze_adapters: Ok, an error of sampling or posting, or a panic
OldAnalysisOutcomes == {"Ok", "Err", "panic"}

\* process_folder from resolve on: the answer of resolve, the answer to the
\* POST or PUT that follows it, and what analyze_adapters comes to
OldSyncResult(s, resolve, rest, analysis) ==
    LET analyzed == IF s.analyze_adapters THEN analysis ELSE "Ok"
    IN  IF s.register \/ s.update
        THEN IF resolve = 200
             THEN IF s.update /\ rest # 200 THEN "Err" ELSE analyzed
             ELSE IF resolve = 404
             THEN IF ~s.register THEN "Ok"
                  ELSE IF rest # 200 THEN "Err" ELSE analyzed
             ELSE "Err"
        ELSE IF resolve = 200 THEN analyzed ELSE "panic"

OldFolderResult(s, kind, resolve, rest, analysis) ==
    IF OldHeadOutcome(kind) = "err" THEN "Err"
    ELSE IF OldHeadOutcome(kind) = "panic" THEN "panic"
    ELSE OldSyncResult(s, resolve, rest, analysis)

LocalsUnchanged ==
    UNCHANGED <<remote, num_hists, run_info, flowcell, k, index_no, cycle, reqs,
                decisions>>

OldInit == Init

\* run, lines 889-897
OldRunStart ==
    /\ pc = "run"
    /\ IF settings.project_uuid = ""
       THEN pc' = "finished" /\ runResult' = "Err"
       ELSE pc' = "next" /\ runResult' = runResult
    /\ UNCHANGED <<settings, idx, results>>
    /\ LocalsUnchanged
    /\ FunctionVarsUnchanged

\* run, lines 903-918: any() asks the mapped iterator for the next element only
\* while no element was true
OldNextPath ==
    /\ pc = "next"
    /\ idx <= NumPaths
    /\ NumFailed(results) = 0
    /\ pc' = "folder"
    /\ UNCHANGED <<settings, idx, results, runResult>>
    /\ LocalsUnchanged
    /\ FunctionVarsUnchanged

\* process_folder, lines 758-887, and the closure of run that receives its result
OldProcessFolder ==
    /\ pc = "folder"
    /\ \E kind \in OldDirKinds, resolve \in {200, 404, 500}, rest \in {200, 500},
          analysis \in OldAnalysisOutcomes :
        LET res == OldFolderResult(settings, kind, resolve, rest, analysis)
        IN  IF res = "panic"
            THEN pc' = "panicked" /\ UNCHANGED <<idx, results>>
            ELSE pc' = "next" /\ idx' = idx + 1 /\ results' = Append(results, res)
    /\ UNCHANGED <<settings, runResult>>
    /\ LocalsUnchanged
    /\ FunctionVarsUnchanged

\* run, lines 918-924: any() returned
OldRunReturns ==
    /\ pc = "next"
    /\ idx > NumPaths \/ NumFailed(results) > 0
    /\ pc' = "finished"
    /\ runResult' = IF NumFailed(results) > 0 THEN "Err" ELSE "Ok"
    /\ UNCHANGED <<settings, idx, results>>
    /\ LocalsUnchanged
    /\ FunctionVarsUnchanged

OldNext == OldRunStart \/ OldNextPath \/ OldProcessFolder \/ OldRunReturns

SpecOld == OldInit /\ [][OldNext]_vars

---------------------------------------------------------------------------
(* get_status_sequencing (ingest/bcl_meta.rs) as a function of its arguments *)

ProgramIdle ==
    /\ settings = DefaultSettings
    /\ idx = 1
    /\ results = <<>>
    /\ runResult = "none"
    /\ remote = None
    /\ num_hists = 0
    /\ run_info = NoRunInfo
    /\ flowcell = None
    /\ k = 0
    /\ index_no = 0
    /\ cycle = 0
    /\ reqs = <<>>
    /\ decisions = <<>>

ProgramUnchanged ==
    UNCHANGED <<settings, idx, results, runResult, remote, num_hists, run_info,
                flowcell, k, index_no, cycle, reqs, decisions>>

\* The same cycles as Reads_T, numbered differently
Reads_T2 == <<ReadDescription(2, 2, FALSE)>>

\* The same reads as Reads_TB with the index flag of the last read cleared
Reads_TT == <<ReadDescription(1, 2, FALSE), ReadDescription(2, 1, FALSE)>>

StatusReads == {<<>>, Reads_T, Reads_T2, Reads_TB, Reads_TT, Reads_TBB, Reads_Other}

StatusInputs ==
    [reads : StatusReads, planned_reads : StatusReads, rta_complete : BOOLEAN,
     current_status : Statuses]

StatusInit ==
    /\ pc = "status"
    /\ input \in StatusInputs
    /\ output = "none"
    /\ ProgramIdle

GetStatusSequencing ==
    /\ pc = "status"
    /\ pc' = "status_done"
    /\ output' = get_status_sequencing(input.reads, input.planned_reads,
                                       input.rta_complete, input.current_status)
    /\ UNCHANGED input
    /\ ProgramUnchanged

StatusNext == GetStatusSequencing

SpecStatus == StatusInit /\ [][StatusNext]_vars

---------------------------------------------------------------------------
(* analyze_stacks (ingest/bcl_data.rs) for the stack of one lane *)

MaxCycles == 2

BaseChars == {"A", "C"}

\* What one base-call file decodes to: a base per cluster
DecodedArrays == UNION {[1..n -> BaseChars] : n \in 0..MaxClusters}

\* min_index_fraction as a fraction num / den
Fractions == {[num |-> 0, den |-> 1], [num |-> 1, den |-> 2], [num |-> 1, den |-> 1]}

StackInputs ==
    [bases : UNION {[1..c -> DecodedArrays] : c \in 0..MaxCycles},
     load_fails : BOOLEAN,
     min_index_fraction : Fractions]

\* lines 317-327: the sequence of cluster i takes base i of every array
BuildSeqs(bases, num_seqs) ==
    [i \in 1..num_seqs |-> [j \in 1..Len(bases) |-> bases[j][i]]]

\* lines 333-336: *hist.entry(seq).or_insert(1) += 1
HistCount(seqs, seq) == 1 + Cardinality({i \in 1..Len(seqs) : seqs[i] = seq})

BuildHist(seqs) == {<<seqs[i], HistCount(seqs, seqs[i])>> : i \in 1..Len(seqs)}

\* Variant: a count equal to the threshold is kept
FilterHist_at_least(hist, num_seqs, fraction) ==
    {e \in hist : e[2] * fraction.den >= num_seqs * fraction.num}

\* lines 339-344: count as f64 > num_seqs as f64 * min_index_fraction
FilterHist(hist, num_seqs, fraction) ==
    {e \in hist : e[2] * fraction.den > num_seqs * fraction.num}

StackResult(kind, sample_size, hist) ==
    [kind |-> kind, sample_size |-> sample_size, hist |-> hist]

\* bases[0] of no array and bases[j][i] beyond the end of bases[j] panic
IndexOutOfRange(bases) ==
    \/ bases = <<>>
    \/ \E j \in 1..Len(bases) : Len(bases[j]) < Len(bases[1])

analyze_stacks(in) ==
    IF in.load_fails THEN StackResult("err", 0, {})
    ELSE IF IndexOutOfRange(in.bases) THEN StackResult("panic", 0, {})
    ELSE LET num_seqs == Len(in.bases[1])
             seqs == BuildSeqs(in.bases, num_seqs)
         IN  StackResult("ok", num_seqs,
                         FilterHist(BuildHist(seqs), num_seqs, in.min_index_fraction))

StacksInit ==
    /\ pc = "stacks"
    /\ input \in StackInputs
    /\ output = StackResult("none", 0, {})
    /\ ProgramIdle

AnalyzeStacks ==
    /\ pc = "stacks"
    /\ pc' = "stacks_done"
    /\ output' = analyze_stacks(input)
    /\ UNCHANGED input
    /\ ProgramUnchanged

StacksNext == AnalyzeStacks

SpecStacks == StacksInit /\ [][StacksNext]_vars

---------------------------------------------------------------------------
(* The base-call file readers (ingest/bcl_data.rs) for one file *)

Table == <<"A", "C", "G", "T">>

\* Byte values with and without base bits, quality bits and a second cluster
ByteSample == {0, 4, 27, 228}

Formats == {"bcl", "bcl_gz", "cbcl"}

\* A file: its format, the cluster count of its header, its payload bytes; and
\* settings.ingest.sample_reads_per_tile
DecodeInputs ==
    [format : Formats,
     num_clusters : 0..MaxClusters,
     payload : UNION {[1..n -> ByteSample] : n \in 0..MaxClusters},
     sample_reads_per_tile : -1..(MaxClusters + 1)]
    \cup [format : Formats, num_clusters : {1}, payload : {<<b>> : b \in 0..255},
          sample_reads_per_tile : {0}]

DecodeResult(kind, chars) == [kind |-> kind, chars |-> chars]

Min(a, b) == IF a < b THEN a ELSE b

\* load_bcl_gz, load_bcl: the bytes that are read, or "err" (read_exact fails)
BclNumBytes(num_bytes, sample_reads_per_tile) ==
    IF sample_reads_per_tile > 0 THEN Min(num_bytes, sample_reads_per_tile)
    ELSE num_bytes

\* Variant: a byte without base bits is a no-call
DecodeByte_no_base_bits(b) == IF b % 4 = 0 THEN "N" ELSE Table[(b % 4) + 1]

\* analyze_stacks, lines 297-305: one byte of a BCL file
DecodeByte(b) == IF b = 0 THEN "N" ELSE Table[(b % 4) + 1]

load_bcl(in) ==
    LET num_bytes == BclNumBytes(in.num_clusters, in.sample_reads_per_tile)
    IN  IF Len(in.payload) < num_bytes THEN DecodeResult("err", <<>>)
        ELSE DecodeResult("ok", [i \in 1..num_bytes |-> DecodeByte(in.payload[i])])

\* load_from_cbcl, lines 236-239: min(num_clusters, sample_reads_per_tile as
\* u32); a negative i32 becomes a u32 of at least 2^31, above every cluster
\* count of the model
CbclNumBytes(num_clusters, sample_reads_per_tile) ==
    IF sample_reads_per_tile < 0 THEN num_clusters
    ELSE Min(num_clusters, sample_reads_per_tile)

\* load_from_cbcl, lines 240-248: iterations j .. steps - 1 of the loop
RECURSIVE CbclChars(_, _, _, _)
CbclChars(payload, j, steps, num_bytes) ==
    IF j >= steps THEN <<>>
    ELSE <<Table[(payload[j + 1] % 4) + 1]>>
         \o (IF num_bytes > j * 2
             THEN <<Table[((payload[j + 1] \div 16) % 4) + 1]>> ELSE <<>>)
         \o CbclChars(payload, j + 1, steps, num_bytes)

load_from_cbcl(in) ==
    LET num_bytes == CbclNumBytes(in.num_clusters, in.sample_reads_per_tile)
        steps == (num_bytes + 1) \div 2
    IN  IF Len(in.payload) < steps THEN DecodeResult("err", <<>>)
        ELSE DecodeResult("ok", CbclChars(in.payload, 0, steps, num_bytes))

\* analyze_stacks, lines 274-309: the characters one path decodes to
DecodeFile(in) == IF in.format = "cbcl" THEN load_from_cbcl(in) ELSE load_bcl(in)

DecodeInit ==
    /\ pc = "decode"
    /\ input \in DecodeInputs
    /\ output = DecodeResult("none", <<>>)
    /\ ProgramIdle

Decode ==
    /\ pc = "decode"
    /\ pc' = "decode_done"
    /\ output' = DecodeFile(input)
    /\ UNCHANGED input
    /\ ProgramUnchanged

DecodeNext == Decode

SpecDecode == DecodeInit /\ [][DecodeNext]_vars

---------------------------------------------------------------------------
(* guess_folder_layout (ingest/bcl_meta.rs) as a function of the files that exist *)

\* Paths of a run directory: the markers and a file that is no marker
DirPaths == Markers \cup {"RunInfo.xml"}

\* A file exists only in a directory that exists
ParentsExist(m) ==
    /\ "L001/C1.1" \in m => "L001" \in m
    /\ "L001/C1.1/L001_1.cbcl" \in m => "L001/C1.1" \in m
    /\ "L001/C1.1/L001_2.cbcl" \in m => "L001/C1.1" \in m

LayoutInputs == {m \in SUBSET DirPaths : ParentsExist(m)}

LayoutInit ==
    /\ pc = "layout"
    /\ input \in LayoutInputs
    /\ output = "none"
    /\ ProgramIdle

GuessFolderLayout ==
    /\ pc = "layout"
    /\ pc' = "layout_done"
    /\ output' = guess_folder_layout(input)
    /\ UNCHANGED input
    /\ ProgramUnchanged

LayoutNext == GuessFolderLayout

SpecLayout == LayoutInit /\ [][LayoutNext]_vars

---------------------------------------------------------------------------
(* The manifest readers of ingest/bcl_meta.rs: process_xml_run_info,
   process_xml_param_doc_miseq and process_xml_param_doc_miniseq.  A document
   is the list of its Read (RunInfoRead) elements, each with the attributes
   Number, NumCycles and IsIndexedRead, the text of its four planned-cycles
   fields and the text of FCPosition; a field that the document does not
   have is None. *)

MaxReads == 3

\* The Read elements of a document in document order; the instrument numbers
\* them 1, 2, ... and a read that is not sequenced has NumCycles 0
RECURSIVE ElementLists(_)
ElementLists(n) ==
    IF n = 0 THEN {<<>>}
    ELSE ElementLists(n - 1)
         \cup {Append(es, [Number |-> Len(es) + 1, NumCycles |-> c, IsIndexedRead |-> y]) :
                 es \in {l \in ElementLists(n - 1) : Len(l) = n - 1},
                 c \in 0..MaxCycles, y \in {"Y", "N"}}

\* The text of a planned-cycles field
FieldTexts == {None} \cup {Some(n) : n \in -1..MaxCycles}

NoFields == [i \in 1..4 |-> None]

ManifestInputs ==
    [kind : {"run_info"}, elements : ElementLists(MaxReads), fields : {NoFields},
     fc_position : {None}]
    \cup [kind : {"miseq"}, elements : ElementLists(MaxReads), fields : {NoFields},
          fc_position : {None, Some("B")}]
    \cup [kind : {"miniseq"}, elements : {<<>>}, fields : [1..4 -> FieldTexts],
          fc_position : {None, Some("B")}]

ManifestResult(reads, flowcell_slot) == [reads |-> reads, flowcell_slot |-> flowcell_slot]

\* The loop over the Read elements, lines 107-135 and 191-219
RECURSIVE ReadsOfElements(_)
ReadsOfElements(elements) ==
    IF elements = <<>> THEN <<>>
    ELSE LET elem == Head(elements)
             rest == ReadsOfElements(Tail(elements))
         IN  IF elem.NumCycles > 0
             THEN <<ReadDescription(elem.Number, elem.NumCycles,
                                    elem.IsIndexedRead = "Y")>> \o rest
             ELSE rest

process_xml_run_info(doc) == ManifestResult(ReadsOfElements(doc.elements), "")

process_xml_param_doc_miseq(doc) ==
    ManifestResult(ReadsOfElements(doc.elements),
                   IF doc.fc_position = None THEN "A" ELSE doc.fc_position[1])

\* The four fields in the order they are read, lines 265-311
PlannedFields ==
    <<[name |-> "PlannedRead1Cycles", is_index |-> FALSE],
      [name |-> "PlannedIndex1ReadCycles", is_index |-> TRUE],
      [name |-> "PlannedIndex2ReadCycles", is_index |-> TRUE],
      [name |-> "PlannedRead2Cycles", is_index |-> FALSE]>>

\* value.into_number() as i32: the number of an empty node set is NaN, and the
\* cast of NaN to i32 is 0
IntoNumberAsI32(text) == IF text = None THEN 0 ELSE text[1]

\* Variant: a kept read is numbered by the position of its field
RECURSIVE PlannedReadsFrom_numbered_by_field(_, _, _)
PlannedReadsFrom_numbered_by_field(fields, i, number) ==
    IF i > Len(PlannedFields) THEN <<>>
    ELSE LET num_cycles == IntoNumberAsI32(fields[i])
         IN  IF num_cycles # 0
             THEN <<ReadDescription(i, num_cycles, PlannedFields[i].is_index)>>
                  \o PlannedReadsFrom_numbered_by_field(fields, i + 1, number + 1)
             ELSE PlannedReadsFrom_numbered_by_field(fields, i + 1, number)

\* Lines 262-311 from the i-th field on, with the local number
RECURSIVE PlannedReadsFrom(_, _, _)
PlannedReadsFrom(fields, i, number) ==
    IF i > Len(PlannedFields) THEN <<>>
    ELSE LET num_cycles == IntoNumberAsI32(fields[i])
         IN  IF num_cycles # 0
             THEN <<ReadDescription(number, num_cycles, PlannedFields[i].is_index)>>
                  \o PlannedReadsFrom(fields, i + 1, number + 1)
             ELSE PlannedReadsFrom(fields, i + 1, number)

process_xml_param_doc_miniseq(doc) ==
    ManifestResult(PlannedReadsFrom(doc.fields, 1, 1), "A")

ReadManifest(doc) ==
    IF doc.kind = "run_info" THEN process_xml_run_info(doc)
    ELSE IF doc.kind = "miseq" THEN process_xml_param_doc_miseq(doc)
    ELSE process_xml_param_doc_miniseq(doc)

ManifestInit ==
    /\ pc = "manifest"
    /\ input \in ManifestInputs
    /\ output = ManifestResult(<<>>, "")
    /\ ProgramIdle

ProcessXml ==
    /\ pc = "manifest"
    /\ pc' = "manifest_done"
    /\ output' = ReadManifest(input)
    /\ UNCHANGED input
    /\ ProgramUnchanged

ManifestNext == ProcessXml

SpecManifest == ManifestInit /\ [][ManifestNext]_vars

---------------------------------------------------------------------------
(* The RTA version: the text the parameter readers select (bcl_meta.rs
   226-240 and 313-326) and the integer build_flow_cell makes of it
   (mod.rs 39-45) *)

MaxVersionLen == 3

VersionChars == {"v", "2", "3", "."}

RECURSIVE TextsUpTo(_)
TextsUpTo(n) ==
    IF n = 0 THEN {<<>>}
    ELSE TextsUpTo(n - 1)
         \cup {Append(t, c) : t \in {u \in TextsUpTo(n - 1) : Len(u) = n - 1},
                              c \in VersionChars}

\* The texts of RTAVersion and RtaVersion; one text starts with a character
\* of two bytes
VersionInputs ==
    [rta_version : TextsUpTo(MaxVersionLen),
     rta_version3 : TextsUpTo(MaxVersionLen) \cup {<<"é", "3">>}]

\* Bytes of the UTF-8 encoding of a character
Utf8Len(c) == IF c = "é" THEN 2 ELSE 1

\* rta_version3[1..] panics when byte 1 is inside a character
SlicePanics(rta_version3) == rta_version3 # <<>> /\ Utf8Len(Head(rta_version3)) > 1

\* Variant: RTAVersion is preferred when it has text
SelectRtaVersion_prefers_RTAVersion(rta_version, rta_version3) ==
    IF rta_version # <<>> \/ rta_version3 = <<>> THEN rta_version
    ELSE Tail(rta_version3)

SelectRtaVersion(rta_version, rta_version3) ==
    IF rta_version3 # <<>> THEN Tail(rta_version3) ELSE rta_version

VersionResult(kind, rta_version) == [kind |-> kind, rta_version |-> rta_version]

\* The parameter reader, then build_flow_cell
FlowCellRtaVersion(in) ==
    IF SlicePanics(in.rta_version3) THEN VersionResult("panic", 0)
    ELSE LET params == RunParameters(<<>>, SelectRtaVersion(in.rta_version,
                                                            in.rta_version3))
         IN  IF BuildPanics(params) THEN VersionResult("panic", 0)
             ELSE VersionResult("ok",
                     build_flow_cell(NoRunInfo, params, FALSE, None,
                                     DefaultSettings).rta_version)

VersionInit ==
    /\ pc = "version"
    /\ input \in VersionInputs
    /\ output = VersionResult("none", 0)
    /\ ProgramIdle

BuildVersion ==
    /\ pc = "version"
    /\ pc' = "version_done"
    /\ output' = FlowCellRtaVersion(input)
    /\ UNCHANGED input
    /\ ProgramUnchanged

VersionNext == BuildVersion

SpecVersion == VersionInit /\ [][VersionNext]_vars

---------------------------------------------------------------------------
(* string_description (bcl_meta.rs 81-87) over lists of reads *)

\* Numbers of cycles with one, two and three digits
CycleSample == {0, 1, 8, 10, 76, 101}

\* Lists of up to n reads, numbered by position
RECURSIVE ReadLists(_)
ReadLists(n) ==
    IF n = 0 THEN {<<>>}
    ELSE ReadLists(n - 1)
         \cup {Append(l, ReadDescription(Len(l) + 1, c, b)) :
                 l \in {m \in ReadLists(n - 1) : Len(m) = n - 1},
                 c \in CycleSample, b \in BOOLEAN}

DescribeInit ==
    /\ pc = "describe"
    /\ input \in ReadLists(MaxReads)
    /\ output = <<>>
    /\ ProgramIdle

Describe ==
    /\ pc = "describe"
    /\ pc' = "describe_done"
    /\ output' = string_description(input)
    /\ UNCHANGED input
    /\ ProgramUnchanged

DescribeNext == Describe

SpecDescribe == DescribeInit /\ [][DescribeNext]_vars

---------------------------------------------------------------------------
(* The planner find_file_stacks and sample_adapters (bcl_data.rs 356-515).
   The directory of a run is given by its lane directories L00n under
   BaseCalls, each with the base-call files of its first cycle directory
   C1.1.  A file name is the sequence of its pieces, a path the lane
   directory and the pieces below it. *)

Layouts == {"MiniSeq", "MiSeq", "NovaSeq", "HiSeqX"}

\* The base-call files a lane may have in C1.1, in the order of their names
MiSeqFiles == <<<<"s_1_1101", ".bcl">>, <<"s_1_1102", ".bcl", ".gz">>>>

NovaSeqFiles == <<<<"L001_1", ".cbcl">>, <<"L001_2", ".cbcl">>>>

FilesOf(layout) ==
    IF layout = "MiSeq" THEN MiSeqFiles
    ELSE IF layout = "NovaSeq" THEN NovaSeqFiles
    ELSE <<>>

Range(seq) == {seq[i] : i \in 1..Len(seq)}

\* The numbers n of the lane directories L00n that exist
LaneDirSets == {d \in SUBSET (1..(MaxLanes + 1)) : Cardinality(d) <= MaxLanes}

Seeds == {42, 7}

SampleInputs ==
    UNION {[layout : {l}, seed : Seeds, lane_dirs : {d},
            files : [d -> SUBSET Range(FilesOf(l))]] :
              l \in Layouts, d \in LaneDirSets}

\* The index reads the sampler is called for: number of cycles and first cycle
SampleCalls == [num_cycles : 1..MaxCycles, start_cycle : {1, 9}]

\* glob yields its matches in the order of their names
RECURSIVE SortedSeq(_)
SortedSeq(set) ==
    IF set = {} THEN <<>>
    ELSE LET least == CHOOSE x \in set : \A y \in set : x <= y
         IN  <<least>> \o SortedSeq(set \ {least})

\* The files of a lane that glob finds for the pieces after the tile name
RECURSIVE Glob(_, _, _)
Glob(names, present, ending) ==
    IF names = <<>> THEN <<>>
    ELSE (IF Head(names) \in present /\ Tail(Head(names)) = ending
          THEN <<Head(names)>> ELSE <<>>)
         \o Glob(Tail(names), present, ending)

\* format!("{:04}", cycle)
Pad4(n) ==
    LET d == Digits(n)
    IN  [i \in 1..(4 - Len(d)) |-> "0"] \o d

TileBclStack(lane_no, paths) == [lane_no |-> lane_no, paths |-> paths]

BclPath(lane_path, parts) == [lane_path |-> lane_path, parts |-> parts]

\* Variant: the last cycle is start_cycle + num_cycles
CycleRange_inclusive(start_cycle, num_cycles) ==
    [i \in 1..(num_cycles + 1) |-> start_cycle + i - 1]

\* start_cycle..(start_cycle + desc.num_cycles)
CycleRange(start_cycle, num_cycles) ==
    [i \in 1..num_cycles |-> start_cycle + i - 1]

\* The paths of one stack: lane_path/C<cycle>.1/file_name
CyclePaths(lane_path, file_name, num_cycles, start_cycle) ==
    LET cycles == CycleRange(start_cycle, num_cycles)
    IN  [i \in 1..Len(cycles) |->
            BclPath(lane_path, <<"C">> \o Digits(cycles[i]) \o <<".1", "/">>
                               \o file_name)]

\* MiniSeq: lane_path/<cycle, four digits>.bcl.bgzf
MiniSeqPaths(lane_path, num_cycles, start_cycle) ==
    LET cycles == CycleRange(start_cycle, num_cycles)
    IN  [i \in 1..Len(cycles) |->
            BclPath(lane_path, Pad4(cycles[i]) \o <<".bcl", ".bgzf">>)]

PlanResult(kind, stacks) == [kind |-> kind, stacks |-> stacks]

find_file_stacks(in, desc, start_cycle) ==
    LET lane_paths == SortedSeq(in.lane_dirs)
        present(lane_no) == in.files[lane_paths[lane_no]]
    IN  IF in.layout = "MiniSeq"
        THEN PlanResult("ok",
               [lane_no \in 1..Len(lane_paths) |->
                  <<TileBclStack(lane_no,
                       MiniSeqPaths(lane_paths[lane_no], desc.num_cycles,
                                    start_cycle))>>])
        ELSE IF in.layout = "MiSeq"
        THEN PlanResult("ok",
               [lane_no \in 1..Len(lane_paths) |->
                  LET prototypes == Glob(MiSeqFiles, present(lane_no), <<".bcl">>)
                                    \o Glob(MiSeqFiles, present(lane_no),
                                            <<".bcl", ".gz">>)
                  IN  [t \in 1..Len(prototypes) |->
                         TileBclStack(lane_no,
                            CyclePaths(lane_paths[lane_no], prototypes[t],
                                       desc.num_cycles, start_cycle))]])
        ELSE IF in.layout = "NovaSeq"
        THEN PlanResult("ok",
               [lane_no \in 1..Len(lane_paths) |->
                  LET prototypes == Glob(NovaSeqFiles, present(lane_no), <<".cbcl">>)
                  IN  [t \in 1..Len(prototypes) |->
                         TileBclStack(lane_no,
                            CyclePaths(lane_paths[lane_no],
                                       Append(prototypes[t], "!0"),
                                       desc.num_cycles, start_cycle))]])
        ELSE PlanResult("err", <<>>)

\* The generator: its state after seeding is a function of the seed, a draw
\* is a function of the state.  A stand-in of XorShiftRng with 16 states.
RngStates == 0..15

SeedFromU64(seed) == seed % Cardinality(RngStates)

NextU32(rng) == (rng * 5 + 3) % Cardinality(RngStates)

\* rng.gen_range(low, high), low < high
GenRange(rng, low, high) == low + (NextU32(rng) % (high - low))

\* Variant: the generator is seeded with the seed and the number of the read
CallRng_seeded_per_read(seed, no) == SeedFromU64(seed + no)

\* The generator of one call of sample_adapters (line 507)
CallRng(seed, no) == SeedFromU64(seed)

SampleResult(kind, stacks, stack_no, counts) ==
    [kind |-> kind, stacks |-> stacks, stack_no |-> stack_no, counts |-> counts]

\* Results of sample_adapters for the index read desc, number no;
\* loads_ok tells whether every base-call file can be read
sample_adapters(in, desc, no, loads_ok) ==
    LET plan == find_file_stacks(in, desc, desc.start_cycle)
        stacks == plan.stacks
    IN  IF plan.kind = "err" THEN {SampleResult("err", <<>>, None, <<>>)}
        ELSE IF stacks = <<>> \/ Len(stacks[1]) = 0
        THEN {SampleResult("panic", stacks, None, <<>>)}
        ELSE LET stack_no == GenRange(CallRng(in.seed, no), 0, Len(stacks[1]))
                 out_of_range == \E l \in 1..Len(stacks) : stack_no >= Len(stacks[l])
             IN  (IF out_of_range
                  THEN {SampleResult("panic", stacks, Some(stack_no), <<>>)}
                  ELSE {})
                 \cup (IF ~loads_ok
                       THEN {SampleResult("err", stacks, Some(stack_no), <<>>)}
                       ELSE {})
                 \cup (IF loads_ok /\ ~out_of_range
                       THEN {SampleResult("ok", stacks, Some(stack_no),
                               [l \in 1..Len(stacks) |->
                                  [index_no |-> no,
                                   lane_no |-> stacks[l][stack_no + 1].lane_no,
                                   tile |-> stack_no]])}
                       ELSE {})

SampleInit ==
    /\ pc = "sample"
    /\ input \in SampleInputs
    /\ output = <<>>
    /\ ProgramIdle

\* The first and the second index read of a run are sampled
SampleAdapters ==
    /\ pc = "sample"
    /\ \E desc \in SampleCalls, loads_ok \in BOOLEAN :
         \E res \in sample_adapters(input, desc, Len(output) + 1, loads_ok) :
            output' = Append(output, [call |-> desc, result |-> res])
    /\ pc' = IF Len(output) = 0 THEN "sample" ELSE "sample_done"
    /\ UNCHANGED input
    /\ ProgramUnchanged

SampleNext == SampleAdapters

SpecSample == SampleInit /\ [][SampleNext]_vars

---------------------------------------------------------------------------
(* analyze_stacks as parallel tasks (bcl_data.rs 265-354): one task per lane
   (par_iter over lane_stacks), inside it one task per base-call file
   (par_iter over stack.paths).  Each collect puts the results at the
   positions of their items; a collect into a Result stops taking up new
   items once one task has returned an error; a panic of a task is raised
   again when the tasks are joined.  input is the sampled stack of each lane,
   a file being what it decodes to. *)

\* The stacks a lane may have: two that decode, one whose first file cannot
\* be read, one whose second file holds fewer clusters than the first
ParStacks ==
    {<<DecodeResult("ok", <<"A", "C">>), DecodeResult("ok", <<"C", "C">>)>>,
     <<DecodeResult("ok", <<"C", "A">>), DecodeResult("ok", <<"A", "A">>)>>,
     <<DecodeResult("err", <<>>), DecodeResult("ok", <<"A", "C">>)>>,
     <<DecodeResult("ok", <<"A", "C">>), DecodeResult("ok", <<"A">>)>>}

ParInputs == UNION {[1..n -> ParStacks] : n \in 1..MaxLanes}

LaneTask(status, files, result) == [status |-> status, files |-> files, result |-> result]

NoResult == StackResult("none", 0, {})

\* The collect of the files of lane l has seen an error
InnerFull(tasks, l) ==
    \E j \in 1..Len(input[l]) : tasks[l].files[j] = "done" /\ input[l][j].kind = "err"

\* The collect of the lanes has seen an error
OuterFull(tasks) ==
    \E l \in 1..Len(tasks) : tasks[l].status = "finished" /\ tasks[l].result.kind = "err"

\* What the task of a lane returns after its files: the error of a file, or
\* analyze_stacks of the decoded arrays
LaneResult(stack, any_failed) ==
    analyze_stacks([bases |-> [j \in 1..Len(stack) |-> stack[j].chars],
                    load_fails |-> any_failed,
                    min_index_fraction |-> [num |-> 0, den |-> 1]])

ParResult(kind, counts) == [kind |-> kind, counts |-> counts]

\* Lines 346-354: the IndexCounts of a lane
LaneCounts(index, lane_no, res) ==
    [index_no |-> index, lane_no |-> lane_no, sample_size |-> res.sample_size,
     hist |-> res.hist]

\* What the outer collect and the join make of the finished tasks
Collected(tasks) ==
    IF \E l \in 1..Len(tasks) : tasks[l].result.kind = "panic"
    THEN ParResult("panic", <<>>)
    ELSE IF \E l \in 1..Len(tasks) : tasks[l].result.kind = "err"
    THEN ParResult("err", <<>>)
    ELSE ParResult("ok", [l \in 1..Len(tasks) |-> LaneCounts(1, l, tasks[l].result)])

ParInit ==
    /\ pc = "par"
    /\ input \in ParInputs
    /\ output = [tasks |-> [l \in 1..Len(input) |->
                              LaneTask("pending",
                                       [j \in 1..Len(input[l]) |-> "pending"],
                                       NoResult)],
                 result |-> ParResult("none", <<>>)]
    /\ ProgramIdle

ParStep(tasks) ==
    /\ output' = [output EXCEPT !.tasks = tasks]
    /\ UNCHANGED <<pc, input>>
    /\ ProgramUnchanged

\* A worker takes up the task of a lane, unless the collect has an error
StartLane ==
    /\ pc = "par"
    /\ \E l \in 1..Len(input) :
         /\ output.tasks[l].status = "pending"
         /\ IF OuterFull(output.tasks)
            THEN ParStep([output.tasks EXCEPT ![l].status = "skipped"])
            ELSE ParStep([output.tasks EXCEPT ![l].status = "running"])

\* A worker decodes a file of a running lane, unless the collect of the
\* lane has an error
LoadFile ==
    /\ pc = "par"
    /\ \E l \in 1..Len(input) :
         /\ output.tasks[l].status = "running"
         /\ \E j \in 1..Len(input[l]) :
              /\ output.tasks[l].files[j] = "pending"
              /\ IF InnerFull(output.tasks, l)
                 THEN ParStep([output.tasks EXCEPT ![l].files[j] = "skipped"])
                 ELSE ParStep([output.tasks EXCEPT ![l].files[j] = "done"])

\* The files of a lane are collected, the sequences and the histogram built
FinishLane ==
    /\ pc = "par"
    /\ \E l \in 1..Len(input) :
         /\ output.tasks[l].status = "running"
         /\ \A j \in 1..Len(input[l]) : output.tasks[l].files[j] # "pending"
         /\ ParStep([output.tasks EXCEPT
                        ![l].status = "finished",
                        ![l].result = LaneResult(input[l],
                                                 InnerFull(output.tasks, l))])

\* All tasks are joined: analyze_stacks returns or panics
JoinLanes ==
    /\ pc = "par"
    /\ \A l \in 1..Len(input) : output.tasks[l].status \in {"finished", "skipped"}
    /\ pc' = "par_done"
    /\ output' = [output EXCEPT !.result = Collected(output.tasks)]
    /\ UNCHANGED input
    /\ ProgramUnchanged

ParNext ==
    \/ StartLane
    \/ LoadFile
    \/ FinishLane
    \/ JoinLanes

SpecPar == ParInit /\ [][ParNext]_vars

---------------------------------------------------------------------------
(* Properties.  reqs holds the requests of the directory being processed    *)
(* from the step that called resolve until run is done with the path.       *)

\* Positions in reqs of the requests of one kind
ReqsOf(method, what) ==
    {i \in 1..Len(reqs) : reqs[i].method = method /\ reqs[i].what = what}

\* HTTP status resolve answered for this directory; 0: resolve was not called
ResolveStatus ==
    IF reqs # <<>> /\ reqs[1].what = "resolve" THEN reqs[1].status ELSE 0

\* The record resolve returned with 200
RemoteFound == reqs[1].resp[1]

LastResult == results[Len(results)]

HistogramReqs == ReqsOf("GET", "indexhistos") \cup ReqsOf("POST", "indexhistos")

\* C1: for every resolve outcome and every settings, a PUT of the flow cell is
\* issued for a directory if and only if resolve returned 200, update is
\* enabled, and the remote status_sequencing is initial or in_progress or
\* skip_if_status_final is false; in every other case no PUT is issued and the
\* remote record is used unchanged.
C1_PutExactlyWhenDecided ==
    ResolveStatus # 0 =>
        LET decided ==
                /\ ResolveStatus = 200
                /\ settings.update
                /\ \/ RemoteFound.status_sequencing \in {"initial", "in_progress"}
                   \/ ~settings.skip_if_status_final
        IN  /\ (ReqsOf("PUT", "flowcell") # {}) <=> decided
            /\ (~decided /\ ResolveStatus = 200 /\ pc = "adapters")
                   => flowcell = reqs[1].resp

\* C2: a create POST of the flow cell is issued for a directory if and only if
\* resolve returned 404 and register is enabled; the record that POST returned
\* is the flow cell of every later histogram GET and POST of the directory.
C2_PostExactlyWhenRegistering ==
    ResolveStatus # 0 =>
        /\ (ReqsOf("POST", "flowcell") # {})
               <=> (ResolveStatus = 404 /\ settings.register)
        /\ \A i \in ReqsOf("POST", "flowcell") :
               reqs[i].resp # None =>
                   /\ pc = "adapters" => flowcell = reqs[i].resp
                   /\ \A j \in HistogramReqs :
                          reqs[j].uuid = reqs[i].resp[1].sodar_uuid

\* C3: whenever resolve returns 404 and register is disabled, whatever update
\* is, the directory ends with Ok, no POST or PUT is issued, no adapter analysis
\* is run, and run goes on with the remaining directories.
C3_NotFoundWithoutRegisterIsSkipped ==
    (ResolveStatus = 404 /\ ~settings.register) =>
        /\ pc = "returned"
        /\ LastResult = "Ok"
        /\ Len(reqs) = 1
        /\ decisions = <<>>

\* C4: whenever resolve returns an HTTP error other than 404, whatever register
\* and update are, the directory's result is a failure, no POST, PUT or
\* histogram request is issued for it, and run goes on with the remaining
\* directories.
C4_ResolveErrorFailsDirectory ==
    (ResolveStatus \notin {0, 200, 404}) =>
        /\ pc = "returned"
        /\ LastResult = "Err"
        /\ Len(reqs) = 1

\* get_status_sequencing returns a final current_status as it is
C5_FinalStatusReturned ==
    \A in \in StatusInputs :
        in.current_status \in {"closed", "failed", "complete"} =>
            get_status_sequencing(in.reads, in.planned_reads, in.rta_complete,
                                  in.current_status) = in.current_status

\* C5: status monotonicity: get_status_sequencing returns current_status
\* unchanged when it is closed, failed or complete, so once the remote
\* status_sequencing is one of the three, no PUT of the tool carries another
\* status_sequencing and the service's record keeps it.
C5_StatusMonotonicity ==
    /\ pc = "run" => C5_FinalStatusReturned
    /\ (ResolveStatus = 200
        /\ RemoteFound.status_sequencing \in {"closed", "failed", "complete"}) =>
           /\ \A i \in ReqsOf("PUT", "flowcell") :
                  reqs[i].body[1].status_sequencing = RemoteFound.status_sequencing
           /\ remote # None
           /\ remote[1].status_sequencing = RemoteFound.status_sequencing

\* A PUT the service accepted for a record that is complete, of a directory
\* whose reads differ from the planned ones
C5_Witness ==
    /\ ResolveStatus = 200
    /\ RemoteFound.status_sequencing = "complete"
    /\ \E i \in ReqsOf("PUT", "flowcell") :
           /\ reqs[i].status = 200
           /\ reqs[i].body[1].planned_reads # Some(<<>>)
           /\ reqs[i].body[1].planned_reads # reqs[i].body[1].current_reads
           /\ reqs[i].body[1].status_sequencing = "complete"

FrameFields ==
    {"sodar_uuid", "run_date", "run_number", "slot", "vendor_id", "label",
     "num_lanes", "rta_version", "manual_label", "description",
     "sequencing_machine", "operator", "status_conversion", "status_delivery",
     "delivery_type"}

\* C6: the body of every PUT equals the record resolve returned in every field
\* except planned_reads, current_reads and status_sequencing, which are those
\* of the record rebuilt from the directory.  (The rebuilt record is compared
\* while the PUT is the latest request; reqs only grows after it.)
C6_PutBodyIsMergedRecord ==
    \A i \in ReqsOf("PUT", "flowcell") :
        LET body == reqs[i].body[1]
        IN  /\ DOMAIN body = DOMAIN RemoteFound
            /\ \A f \in FrameFields : body[f] = RemoteFound[f]
            /\ (pc = "adapters") =>
                   body.current_reads = Some(string_description(run_info.reads))
            /\ (i = Len(reqs)) => \E dir \in GoodDirs :
                   LET info == RunInfo(dir.lane_count, dir.reads)
                       params == RunParameters(dir.planned_reads, dir.rta_version)
                       rebuilt == build_flow_cell(info, params, dir.rta_complete,
                                      Some(RemoteFound.status_sequencing), settings)
                   IN  /\ ~BuildPanics(params)
                       /\ body.planned_reads = rebuilt.planned_reads
                       /\ body.current_reads = rebuilt.current_reads
                       /\ body.status_sequencing = rebuilt.status_sequencing

\* A PUT the service accepted that changes the reads and the status and still
\* names the operator of the remote record
C6_Witness ==
    \E i \in ReqsOf("PUT", "flowcell") :
        /\ reqs[i].status = 200
        /\ reqs[i].body[1].current_reads # RemoteFound.current_reads
        /\ reqs[i].body[1].status_sequencing # RemoteFound.status_sequencing
        /\ reqs[i].body[1].operator = Some("someone")
        /\ settings.operator = "op"

\* C7: run processes every path in order, also after a directory failed, and
\* returns Ok if and only if every directory produced Ok; otherwise it returns
\* one failure after the last path was processed.
C7_EveryPathProcessed ==
    (pc = "finished" /\ settings.project_uuid # "") =>
        /\ Len(results) = NumPaths
        /\ (runResult = "Ok") <=> (\A i \in 1..Len(results) : results[i] = "Ok")

\* Equality of two read lists as ordered sequences of triples
SameReads(a, b) ==
    /\ Len(a) = Len(b)
    /\ \A i \in 1..Len(a) : /\ a[i].number = b[i].number
                            /\ a[i].num_cycles = b[i].num_cycles
                            /\ a[i].is_index = b[i].is_index

\* C8: for a current status that is not closed, failed or complete,
\* get_status_sequencing returns failed when planned_reads is non-empty and
\* the reads differ from it; otherwise complete when RTAComplete.txt exists;
\* otherwise in_progress.
C8_StatusOfOpenRun ==
    (pc = "status_done"
     /\ input.current_status \notin {"closed", "failed", "complete"}) =>
        output = IF Len(input.planned_reads) > 0
                    /\ ~SameReads(input.reads, input.planned_reads)
                 THEN "failed"
                 ELSE IF input.rta_complete THEN "complete"
                 ELSE "in_progress"

\* The reads differ from the planned ones and RTAComplete.txt exists: failed
C8_Witness ==
    /\ pc = "status_done"
    /\ input.current_status = "in_progress"
    /\ input.rta_complete
    /\ Len(input.planned_reads) > 0
    /\ ~SameReads(input.reads, input.planned_reads)
    /\ output = "failed"

CountB(str) == Cardinality({i \in 1..Len(str) : str[i] = "B"})

C10_LengthMismatchIsAnError ==
    (pc = "stacks_done" /\ ~input.load_fails /\ Len(input.bases) > 0) =>
        IF \E i, j \in 1..Len(input.bases) :
               Len(input.bases[i]) # Len(input.bases[j])
        THEN output.kind = "err"
        ELSE output.kind = "ok" /\ output.sample_size = Len(input.bases[1])

\* The sequence of cluster i of the stack: base i of every decoded array
ClusterSeq(i) == [j \in 1..Len(input.bases) |-> input.bases[j][i]]

\* The number of sampled clusters that have the sequence seq
Occurrences(seq) ==
    Cardinality({i \in 1..output.sample_size : ClusterSeq(i) = seq})

RECURSIVE SumCounts(_)
SumCounts(hist) ==
    IF hist = {} THEN 0
    ELSE LET e == CHOOSE x \in hist : TRUE IN e[2] + SumCounts(hist \ {e})

\* C11: the histogram of analyze_stacks maps every sequence to the number of
\* sampled clusters that have it: every retained count is that number and at
\* most sample_size, and where nothing is filtered the counts sum to
\* sample_size.
C11_HistogramCountsClusters ==
    (pc = "stacks_done" /\ output.kind = "ok") =>
        /\ \A e \in output.hist : /\ e[2] = Occurrences(e[1])
                                  /\ e[2] <= output.sample_size
        /\ (input.min_index_fraction.num = 0) =>
               SumCounts(output.hist) = output.sample_size

HoldsItsClusters ==
    Len(input.payload) = IF input.format = "cbcl"
                         THEN (input.num_clusters + 1) \div 2
                         ELSE input.num_clusters

\* C13: for plain BCL, gzip BCL and CBCL, the number of clusters decoded from
\* a file that holds N clusters is N when sample_reads_per_tile is 0 and
\* min(N, sample_reads_per_tile) when it is positive.
C13_ClustersDecoded ==
    (pc = "decode_done" /\ HoldsItsClusters /\ input.sample_reads_per_tile >= 0) =>
        /\ output.kind = "ok"
        /\ Len(output.chars) =
               IF input.sample_reads_per_tile = 0 THEN input.num_clusters
               ELSE IF input.num_clusters < input.sample_reads_per_tile
               THEN input.num_clusters
               ELSE input.sample_reads_per_tile

\* C14: when k clusters are read from a CBCL tile, exactly k bases are emitted,
\* cluster 2i from bits 0-1 and cluster 2i+1 from bits 4-5 of byte i, with the
\* table A, C, G, T.
C14_CbclPacking ==
    (pc = "decode_done" /\ input.format = "cbcl" /\ HoldsItsClusters
     /\ input.sample_reads_per_tile > 0) =>
        LET num == IF input.num_clusters < input.sample_reads_per_tile
                 THEN input.num_clusters ELSE input.sample_reads_per_tile
        IN  /\ output.kind = "ok"
            /\ Len(output.chars) = num
            /\ \A c \in 0..(num - 1) :
                   LET b == input.payload[(c \div 2) + 1]
                       bits == IF c % 2 = 0 THEN b % 4 ELSE (b \div 16) % 4
                   IN  output.chars[c + 1] = <<"A", "C", "G", "T">>[bits + 1]

\* C15: in a plain or gzip BCL file a zero byte decodes to 'N' and every other
\* byte to table[byte & 3] with table = A, C, G, T; the output has one base per
\* byte read, in the order of the bytes.
C15_NoCallRule ==
    (pc = "decode_done" /\ input.format # "cbcl" /\ output.kind = "ok") =>
        /\ Len(output.chars) <= Len(input.payload)
        /\ (HoldsItsClusters /\ input.sample_reads_per_tile = 0)
               => Len(output.chars) = Len(input.payload)
        /\ \A i \in 1..Len(output.chars) :
               output.chars[i] = IF input.payload[i] = 0 THEN "N"
                                 ELSE <<"A", "C", "G", "T">>[(input.payload[i] % 4) + 1]

\* A byte with base bits 00 and quality bits set decoded to 'A'
C15_Witness ==
    /\ pc = "decode_done"
    /\ input.format = "bcl_gz"
    /\ output.kind = "ok"
    /\ \E i \in 1..Len(output.chars) :
           input.payload[i] = 4 /\ output.chars[i] = "A"

\* The rules of the layout detector in the order they are tried
LayoutRules ==
    <<[layout |-> "NovaSeq", all |-> {"RunParameters.xml"},
       any |-> {"L001/C1.1/L001_1.cbcl", "L001/C1.1/L001_2.cbcl"}],
      [layout |-> "MiSeq", all |-> {"L001/C1.1", "runParameters.xml"}, any |-> {}],
      [layout |-> "MiniSeq", all |-> {"L001", "RunParameters.xml"}, any |-> {}],
      [layout |-> "HiSeqX", all |-> {"s.locs", "RunParameters.xml"}, any |-> {}]>>

RuleMatches(r, files) ==
    /\ LayoutRules[r].all \subseteq files
    /\ LayoutRules[r].any = {} \/ LayoutRules[r].any \cap files # {}

\* C16: guess_folder_layout depends on the existing marker files only and
\* returns the layout of the first rule that matches in the order NovaSeq,
\* MiSeq, MiniSeq, HiSeqX; it fails when no rule matches.
C16_FirstMatchingRule ==
    (pc = "layout_done") =>
        LET matching == {r \in 1..Len(LayoutRules) : RuleMatches(r, input \cap Markers)}
        IN  IF matching = {} THEN output = "Unknown"
            ELSE \E r \in matching : /\ \A q \in matching : r <= q
                                     /\ output = LayoutRules[r].layout

\* The MiSeq and the MiniSeq rule both match: MiSeq
C16_Witness ==
    /\ pc = "layout_done"
    /\ RuleMatches(2, input)
    /\ RuleMatches(3, input)
    /\ ~RuleMatches(1, input)
    /\ "RunInfo.xml" \in input
    /\ output = "MiSeq"

\* C17: the first request of a directory is sent only when the project UUID is
\* set, RunInfo.xml exists, a layout rule matched and both manifests were
\* parsed; a run without project UUID fails before any directory; a directory
\* without RunInfo.xml or without a known layout is a failure that run counts.
C17_NoRequestBeforeChecks ==
    [][/\ (pc = "run" /\ settings.project_uuid = "") =>
            /\ pc' = "finished"
            /\ runResult' = "Err"
            /\ results' = <<>>
            /\ reqs' = <<>>
       /\ (reqs = <<>> /\ reqs' # <<>>) =>
            /\ pc = "folder"
            /\ settings.project_uuid # ""
            /\ input[1].runinfo_exists
            /\ guess_folder_layout(input[1].markers) # "Unknown"
            /\ input[1].xml = "ok"
       /\ (pc = "folder" /\ (~input[1].runinfo_exists
                             \/ guess_folder_layout(input[1].markers) = "Unknown")) =>
            /\ pc' = "returned"
            /\ reqs' = <<>>
            /\ results' = Append(results, "Err")
       /\ (pc' = "finished" /\ NumFailed(results') > 0) => runResult' = "Err"
      ]_vars

\* The second directory was given up without a request, after a first one
\* that was processed
C17_Witness ==
    /\ pc = "returned"
    /\ settings.project_uuid # ""
    /\ reqs = <<>>
    /\ results = <<"Ok", "Err">>

\* The directory of the current path has a date that cannot be parsed or an
\* RTA version without a leading integer, and nothing else is wrong with it
\* or with the answer of the service
ParseFailureOnly ==
    /\ pc = "folder"
    /\ input[1].runinfo_exists
    /\ guess_folder_layout(input[1].markers) \in {"MiSeq", "MiniSeq", "NovaSeq"}
    /\ \/ input[1].xml = "bad_date"
       \/ input[1].xml = "ok" /\ ParseInt(BeforeDot(input[1].rta_version)) = None
    /\ SyncBranch(settings)
    /\ remote # None => remote[1].sodar_uuid # None

\* C18: a date or an RTA version that cannot be parsed fails that directory
\* only: process_folder returns to run, which goes on with the other paths.
C18_ParseFailureFailsDirectoryOnly ==
    [][ParseFailureOnly => pc' # "panicked"]_vars

\* C19: in the reads of every manifest the element at zero-based position k
\* has number k + 1, also when elements without cycles were left out.
C19_NumbersAreContiguous ==
    (pc = "manifest_done") =>
        \A p \in 1..Len(output.reads) : output.reads[p].number = p

\* The fields of a MiniSeq or NovaSeq document that are present and not 0
KeptFields == {i \in 1..4 : input.fields[i] # None /\ input.fields[i] # Some(0)}

\* C20: the planned reads of a MiniSeq or NovaSeq document are the fields
\* PlannedRead1Cycles, PlannedIndex1ReadCycles, PlannedIndex2ReadCycles and
\* PlannedRead2Cycles in this order without those that are 0 or absent, the
\* two index fields as index reads, numbered 1, 2, ... without gaps; the slot
\* is always "A".
C20_MiniSeqPlannedReads ==
    (pc = "manifest_done" /\ input.kind = "miniseq") =>
        /\ output.flowcell_slot = "A"
        /\ Len(output.reads) = Cardinality(KeptFields)
        /\ \A i \in KeptFields :
             LET p == Cardinality({j \in KeptFields : j <= i})
             IN  /\ output.reads[p].number = p
                 /\ output.reads[p].num_cycles = input.fields[i][1]
                 /\ output.reads[p].is_index = (i \in {2, 3})

\* The first read and the first index are left out, of a document with an
\* FCPosition
C20_Witness ==
    /\ pc = "manifest_done"
    /\ input.kind = "miniseq"
    /\ input.fields = <<Some(0), None, Some(1), Some(2)>>
    /\ input.fc_position = Some("B")
    /\ output.reads = <<ReadDescription(1, 1, TRUE), ReadDescription(2, 2, FALSE)>>
    /\ output.flowcell_slot = "A"

\* The part of a text before its first '.'
RECURSIVE LeadingDigits(_)
LeadingDigits(t) ==
    IF t = <<>> \/ Head(t) = "." THEN <<>> ELSE <<Head(t)>> \o LeadingDigits(Tail(t))

\* C21: the rta_version of a flow cell record is the integer before the first
\* '.' of the selected text: RtaVersion without its first character when
\* RtaVersion has text, RTAVersion otherwise.
C21_RtaVersionOfSelectedText ==
    (pc = "version_done" /\ output.kind = "ok") =>
        LET selected == IF Len(input.rta_version3) > 0
                        THEN SubSeq(input.rta_version3, 2, Len(input.rta_version3))
                        ELSE input.rta_version
            before == LeadingDigits(selected)
        IN  /\ output.rta_version >= 0
            /\ Digits(output.rta_version) = before

\* 'v3.' in RtaVersion and '2.3' in RTAVersion give 3
C21_Witness ==
    /\ pc = "version_done"
    /\ input.rta_version3 = <<"v", "3", ".">>
    /\ input.rta_version = <<"2", ".", "3">>
    /\ output = VersionResult("ok", 3)

\* What parsing gives for a text that is no read description
ParseError == <<<<-1, FALSE>>>>

\* A read description text parsed from the left: digits up to a letter 'B'
\* or 'T' make one pair; acc is the number read so far, seen tells whether a
\* digit was read.
RECURSIVE ParsePairs(_, _, _)
ParsePairs(text, acc, seen) ==
    IF text = <<>> THEN (IF seen THEN ParseError ELSE <<>>)
    ELSE IF \E i \in 1..10 : DigitChars[i] = Head(text)
    THEN ParsePairs(Tail(text),
                    10 * acc + (CHOOSE i \in 1..10 : DigitChars[i] = Head(text)) - 1,
                    TRUE)
    ELSE IF Head(text) \in {"B", "T"} /\ seen
    THEN <<<<acc, Head(text) = "B">>>> \o ParsePairs(Tail(text), 0, FALSE)
    ELSE ParseError

\* C22: string_description writes, read by read in order, the number of cycles
\* and then 'B' for an index read and 'T' otherwise; parsing the text gives
\* back the (num_cycles, is_index) pairs of the reads.
C22_DescriptionRoundTrip ==
    (pc = "describe_done") =>
        ParsePairs(output, 0, FALSE)
            = [i \in 1..Len(input) |-> <<input[i].num_cycles, input[i].is_index>>]

\* [76T, 8B, 8B] is written as 76T8B8B
C22_Witness ==
    /\ pc = "describe_done"
    /\ input = <<ReadDescription(1, 76, FALSE), ReadDescription(2, 8, TRUE),
                 ReadDescription(3, 8, TRUE)>>
    /\ output = <<"7", "6", "T", "8", "B", "8", "B">>

RECURSIVE NumberAt(_, _)
NumberAt(parts, acc) ==
    IF parts # <<>> /\ \E d \in 1..10 : DigitChars[d] = Head(parts)
    THEN NumberAt(Tail(parts),
                  10 * acc + (CHOOSE d \in 1..10 : DigitChars[d] = Head(parts)) - 1)
    ELSE acc

\* The cycle that a path names: C<cycle>.1/... or <cycle>.bcl.bgzf
CycleOfPath(layout, path) ==
    IF layout = "MiniSeq" THEN NumberAt(path.parts, 0)
    ELSE NumberAt(Tail(path.parts), 0)

\* C26: for MiniSeq, MiSeq and NovaSeq every stack has num_cycles paths, the
\* i-th (from 0) of cycle start_cycle + i; the stacks of the k-th lane
\* directory have lane_no k; MiniSeq has one stack per lane; NovaSeq paths
\* end in '!0'; for HiSeqX the call fails.
C26_PlannedStacks ==
    \A c \in 1..Len(output) :
        LET call == output[c].call
            res == output[c].result
            lanes == SortedSeq(input.lane_dirs)
        IN  IF input.layout = "HiSeqX" THEN res.kind = "err" /\ res.stacks = <<>>
            ELSE /\ Len(res.stacks) = Len(lanes)
                 /\ \A kk \in 1..Len(res.stacks) :
                      /\ input.layout = "MiniSeq" => Len(res.stacks[kk]) = 1
                      /\ \A t \in 1..Len(res.stacks[kk]) :
                           LET stack == res.stacks[kk][t]
                           IN  /\ stack.lane_no = kk
                               /\ Len(stack.paths) = call.num_cycles
                               /\ \A i \in 1..Len(stack.paths) :
                                    /\ stack.paths[i].lane_path = lanes[kk]
                                    /\ CycleOfPath(input.layout, stack.paths[i])
                                         = call.start_cycle + (i - 1)
                                    /\ input.layout = "NovaSeq" =>
                                         stack.paths[i].parts[Len(stack.paths[i].parts)]
                                           = "!0"

\* A NovaSeq run with the lane directories L001 and L003, two tile files in
\* the second, planned for the cycles 9 and 10
C26_Witness ==
    /\ pc = "sample_done"
    /\ input.layout = "NovaSeq"
    /\ input.lane_dirs = {1, 3}
    /\ output[2].call = [num_cycles |-> 2, start_cycle |-> 9]
    /\ Len(output[2].result.stacks) = 2
    /\ Len(output[2].result.stacks[2]) = 2
    /\ output[2].result.stacks[2][2].lane_no = 2
    /\ output[2].result.stacks[2][2].paths[2]
         = BclPath(3, <<"C", "1", "0", ".1", "/", "L001_2", ".cbcl", "!0">>)

\* C30: sample_adapters reads stacks[0] and stacks[lane][stack_no] only when
\* they exist: every call ends with the counts of each lane or with an error
\* value, never with an index out of range.
C30_NoIndexOutOfRange ==
    \A c \in 1..Len(output) : output[c].result.kind \in {"ok", "err"}

\* Positions in reqs of the requests that the service answered with an error
FailedReqs == {i \in 1..Len(reqs) : reqs[i].status = 500}

\* C24: inside one directory the first request that fails is the last request
\* of the directory, nothing is sampled or posted after it, and the error is
\* what process_folder returns to run.
C24_FirstErrorEndsDirectory ==
    \A i \in FailedReqs :
        /\ i = Len(reqs)
        /\ pc = "returned"
        /\ LastResult = "Err"

\* The cycles of the reads before position pos
RECURSIVE CyclesBefore(_, _)
CyclesBefore(reads, pos) ==
    IF pos <= 1 THEN 0
    ELSE CyclesBefore(reads, pos - 1) + reads[pos - 1].num_cycles

\* C25: the sampler is called for the j-th index read of run_info.reads with
\* index_no = j and start_cycle = 1 + the cycles of all reads before it,
\* whether earlier index reads were sampled or skipped; a read that is no
\* index read is never sampled.
C25_IndexNoAndStartCycle ==
    [][(pc = "adapters" /\ decisions' # decisions) =>
          LET reads == run_info.reads
              d == decisions'[Len(decisions')]
          IN  /\ decisions' = Append(decisions, d)
              /\ reads[k].is_index
              /\ d.index_no = Cardinality({i \in 1..k : reads[i].is_index})
              /\ d.start_cycle = 1 + CyclesBefore(reads, k)
      ]_vars

\* The second index read is sampled from cycle 4 on, after a first one that
\* was sampled too
C25_Witness ==
    /\ Len(decisions) = 2
    /\ decisions[1].sampled
    /\ decisions[2].sampled
    /\ decisions[2].index_no = 2
    /\ decisions[2].start_cycle = 4

\* C28: in one directory, without force_analyze_adapters and with
\* post_adapters, the decision to skip is the same for every index read:
\* either every index read is sampled and posted or none is.
C28_SameDecisionForEveryIndexRead ==
    (~settings.force_analyze_adapters /\ settings.post_adapters) =>
        \A i, j \in 1..Len(decisions) : decisions[i].sampled = decisions[j].sampled

\* C29: the status_sequencing of every create POST and every update PUT is
\* in_progress, complete, failed or closed, never initial; that of a create
\* POST is in_progress, complete or failed.
C29_NeverSendsInitial ==
    /\ \A i \in ReqsOf("POST", "flowcell") :
          reqs[i].body[1].status_sequencing \in {"in_progress", "complete", "failed"}
    /\ \A i \in ReqsOf("PUT", "flowcell") :
          reqs[i].body[1].status_sequencing
              \in {"in_progress", "complete", "failed", "closed"}

\* A record with status initial on the service was updated to in_progress
C29_Witness ==
    /\ ReqsOf("PUT", "flowcell") = {2}
    /\ reqs[1].resp[1].status_sequencing = "initial"
    /\ reqs[2].body[1].status_sequencing = "in_progress"

\* What the tasks give when they run one after the other in the order of
\* the lanes: the result of the first lane that does not end with counts
RECURSIVE InOrder(_, _)
InOrder(stacks, l) ==
    IF l > Len(stacks) THEN "ok"
    ELSE LET res == LaneResult(stacks[l],
                               \E j \in 1..Len(stacks[l]) : stacks[l][j].kind = "err")
         IN  IF res.kind = "ok" THEN InOrder(stacks, l + 1) ELSE res.kind

\* C27: however the tasks of the lanes and of the files are interleaved, the
\* sequence of cluster i of a lane is base i of every decoded array in the
\* order of the paths, the counts are returned in the order of the lanes with
\* lane_no = position, and the result is that of the tasks run in order.
C27_ResultIndependentOfScheduling ==
    (pc = "par_done") =>
        /\ output.result.kind = InOrder(input, 1)
        /\ output.result.kind = "ok" =>
             /\ Len(output.result.counts) = Len(input)
             /\ \A l \in 1..Len(input) :
                  LET c == output.result.counts[l]
                      seq(i) == [j \in 1..Len(input[l]) |-> input[l][j].chars[i]]
                  IN  /\ c.lane_no = l
                      /\ c.sample_size = Len(input[l][1].chars)
                      /\ \A e \in c.hist : \E i \in 1..c.sample_size : e[1] = seq(i)
                      /\ \A i \in 1..c.sample_size : \E e \in c.hist : e[1] = seq(i)

=============================================================================
